---------------------------- MODULE Spec2Model ----------------------------
(***************************************************************************)
(* A model of src/server.js: the authoritative arena server.  The world    *)
(* (players, bullets, obstacles, respawn timers) is advanced by update()   *)
(* and mutated by the websocket handlers (join, input, upgrade, close).    *)
(*                                                                         *)
(* Numbers.  The code computes in IEEE doubles; the model computes in      *)
(* integers with fixed units so that every quantity a comparison reads is  *)
(* exact for the inputs drawn here:                                        *)
(*   time (Date.now(), dt, life, lastShot)   milliseconds                  *)
(*   fireCooldown                            microseconds                  *)
(*   player hp, maxHp                        1/HpScale hp                  *)
(*   regen                                   half hp per second            *)
(*   damage, obstacle hp, score, xp, level   as in the code                *)
(*   positions                               world units, each computed    *)
(*                                           displacement rounded to the   *)
(*                                           nearest unit                  *)
(*   directions (cos, sin of an angle)       thousandths                   *)
(***************************************************************************)
EXTENDS Integers, Sequences, FiniteSets, TLC

VARIABLES
    conns,          \* wss.clients: per connection, readyState open and ws.id
    players,        \* world.players, in insertion order (for..in order)
    bullets,        \* world.bullets
    obstacles,      \* world.obstacles
    respawnTimers,  \* respawnTimers: sequence of [id, time] in insertion order
    clock,          \* the last value Date.now() returned (ms)
    last,           \* `last` (ms)
    nextId,         \* the next uuidv4() value
    ticks,          \* number of update() calls so far
    steps,          \* number of connection events handled so far
    sent,           \* messages the last step sent: [to, type, level]
    events          \* what the last step did, in program order

vars == <<conns, players, bullets, obstacles, respawnTimers, clock, last,
          nextId, ticks, steps, sent, events>>

---------------------------------------------------------------------------
(* Program constants *)

WORLD_W == 3000
WORLD_H == 2000

\* player hp is kept in units of 1/HpScale so that 25*dt, 10*dt and regen*dt
\* (dt in ms, regen in halves) are integers
HpScale == 2000

---------------------------------------------------------------------------
(* Arithmetic *)

Max(a, b) == IF a >= b THEN a ELSE b
Min(a, b) == IF a <= b THEN a ELSE b
Abs(a) == IF a >= 0 THEN a ELSE -a

\* a / b rounded to the nearest integer (b > 0), halves away from zero
RoundDiv(a, b) == IF a >= 0 THEN (2 * a + b) \div (2 * b)
                  ELSE -((2 * (-a) + b) \div (2 * b))

\* Math.floor(v * 0.5) for an integer v >= 0
FloorHalf(v) == v \div 2

RECURSIVE Pow10(_)
Pow10(n) == IF n = 0 THEN 1 ELSE 10 * Pow10(n - 1)

\* 13^n as <<hi, lo>> with 13^n = hi * 10^6 + lo, 0 <= lo < 10^6
RECURSIVE Pow13(_)
Pow13(n) ==
    IF n = 0 THEN <<0, 1>>
    ELSE LET p == Pow13(n - 1)
             l == p[2] * 13
         IN  <<p[1] * 13 + l \div 1000000, l % 1000000>>

\* Math.round(10 * Math.pow(1.3, level - 1)): 13^n / 10^(n-1) rounded to the
\* nearest integer, n = level - 1 (the quotient is never an exact half)
calcXpToLevel(level) ==
    LET n == level - 1
        d == n - 1
        p == Pow13(n)
    IN  IF n = 0 THEN 10
        ELSE IF d <= 6
        THEN LET q == p[1] * Pow10(6 - d) + p[2] \div Pow10(d)
                 r == p[2] % Pow10(d)
             IN  IF 2 * r >= Pow10(d) THEN q + 1 ELSE q
        ELSE LET q == p[1] \div Pow10(d - 6)
                 r == p[1] % Pow10(d - 6)
             IN  IF 2 * r >= Pow10(d - 6) THEN q + 1 ELSE q

---------------------------------------------------------------------------
(* Players *)

NoInputs == [up |-> FALSE, down |-> FALSE, left |-> FALSE, right |-> FALSE,
             aimX |-> 0, aimY |-> 0, firing |-> FALSE, autoFire |-> FALSE]

\* createPlayer(id, name) at the position Math.random() chose.  bulletSize is
\* not set by createPlayer: 0 stands for undefined (createBullet reads it
\* through `|| 5`).  angle 0 is the direction <<1000, 0>>.
createPlayer(id, pos) ==
    [id |-> id, tier |-> 1, x |-> pos[1], y |-> pos[2], dir |-> <<1000, 0>>,
     size |-> 20, hp |-> 100 * HpScale, maxHp |-> 100 * HpScale,
     score |-> 0, xp |-> 0, level |-> 1, xpToLevel |-> 10, damage |-> 20,
     fireCooldown |-> 300000, speed |-> 220, regen |-> 2,
     bulletLife |-> 1800, bulletSpeed |-> 850, lastShot |-> 0,
     inputs |-> NoInputs, bulletSize |-> 0]

applyTier(player) ==
    IF player.level >= 10
    THEN [player EXCEPT !.tier = 3, !.damage = 45, !.bulletSize = 8]
    ELSE IF player.level >= 5
    THEN [player EXCEPT !.tier = 2, !.damage = 30, !.bulletSize = 12]
    ELSE [player EXCEPT !.tier = 1, !.damage = 20, !.bulletSize = 5]

\* the tier block repeated inside the level-up loop and after the obstacle
\* reward: no else branch, bulletSize 10 at level >= 10
inlineTier(player) ==
    IF player.level >= 10
    THEN [player EXCEPT !.tier = 3, !.damage = 45, !.bulletSize = 10]
    ELSE IF player.level >= 5
    THEN [player EXCEPT !.tier = 2, !.damage = 30, !.bulletSize = 12]
    ELSE player

\* p.xpToLevel = calcXpToLevel(p.level)
setXpToLevel(p) == [p EXCEPT !.xpToLevel = calcXpToLevel(p.level)]

\* p.xp = Math.min(p.xp, p.xpToLevel - 1)
clampXp(p) == [p EXCEPT !.xp = Min(p.xp, p.xpToLevel - 1)]

\* resetPlayer as the lines it replaced had it (commented out at the head of
\* the function): xp and score cleared, level back to 1
resetPlayerFull(p, pos) ==
    clampXp(setXpToLevel(applyTier(
        [p EXCEPT !.xp = 0, !.score = 0,
                  !.hp = 100 * HpScale, !.maxHp = 100 * HpScale,
                  !.x = pos[1], !.y = pos[2],
                  !.level = 1,
                  !.damage = 20, !.fireCooldown = 300000,
                  !.speed = 220, !.regen = 2,
                  !.bulletLife = 1800, !.bulletSpeed = 850])))

\* resetPlayer without its call of applyTier
resetPlayerNoTier(p, pos) ==
    clampXp(setXpToLevel(
        [p EXCEPT !.xp = FloorHalf(p.xp), !.score = FloorHalf(p.score),
                  !.hp = 100 * HpScale, !.maxHp = 100 * HpScale,
                  !.x = pos[1], !.y = pos[2],
                  !.level = Max(1, p.level - 1),
                  !.damage = 20, !.fireCooldown = 300000,
                  !.speed = 220, !.regen = 2,
                  !.bulletLife = 1800, !.bulletSpeed = 850]))

resetPlayer(p, pos) ==
    clampXp(setXpToLevel(applyTier(
        [p EXCEPT !.xp = FloorHalf(p.xp), !.score = FloorHalf(p.score),
                  !.hp = 100 * HpScale, !.maxHp = 100 * HpScale,
                  !.x = pos[1], !.y = pos[2],
                  !.level = Max(1, p.level - 1),
                  !.damage = 20, !.fireCooldown = 300000,
                  !.speed = 220, !.regen = 2,
                  !.bulletLife = 1800, !.bulletSpeed = 850])))

---------------------------------------------------------------------------
(* Connections and notifications *)

\* wss.clients.forEach(ws => { if (ws.id === player.id && ws.readyState === 1)
\*   ws.send({type: "levelup", level: player.level}) }), from connection c on
RECURSIVE levelupSends(_, _, _)
levelupSends(cs, player, c) ==
    IF c > Len(cs) THEN <<>>
    ELSE (IF cs[c].open /\ cs[c].id = player.id
          THEN <<[to |-> c, type |-> "levelup", level |-> player.level]>>
          ELSE <<>>) \o levelupSends(cs, player, c + 1)

\* one pass through the body of the while loop, up to the notification
levelUp(player) ==
    inlineTier(setXpToLevel(applyTier(
        [player EXCEPT !.xp = @ - player.xpToLevel, !.level = @ + 1])))

\* r = [player, sent] with the levelup messages for r.player added
notified(r, cs) ==
    [player |-> r.player, sent |-> r.sent \o levelupSends(cs, r.player, 1)]

\* the loop of addXPAndCheckLevel written with `if` for `while`
levelLoopOnce(r, cs) ==
    IF r.player.xp >= r.player.xpToLevel
    THEN notified([player |-> levelUp(r.player), sent |-> r.sent], cs)
    ELSE r

\* the while loop of addXPAndCheckLevel; r.sent collects the messages sent
RECURSIVE levelLoop(_, _)
levelLoop(r, cs) ==
    IF r.player.xp >= r.player.xpToLevel
    THEN levelLoop(notified([player |-> levelUp(r.player), sent |-> r.sent], cs), cs)
    ELSE r

\* addXPAndCheckLevel(player, xpGain): the player afterwards and the levelup
\* messages sent
addXPAndCheckLevel(player, xpGain, cs) ==
    levelLoop([player |-> [player EXCEPT !.xp = @ + xpGain], sent |-> <<>>], cs)

---------------------------------------------------------------------------
(* Geometry *)

RECURSIVE IsqrtIter(_, _)
IsqrtIter(n, x) ==
    IF (x + n \div x) \div 2 >= x THEN x ELSE IsqrtIter(n, (x + n \div x) \div 2)

\* floor of the square root
Isqrt(n) == IF n = 0 THEN 0 ELSE IsqrtIter(n, n)

\* Math.hypot(dx, dy) as <<length * k, k>>, k the finest of 1000, 100, 10
\* that keeps the square within 32 bits
Hypot(dx, dy) ==
    IF dx * dx + dy * dy <= 2000
    THEN <<Isqrt((dx * dx + dy * dy) * 1000000), 1000>>
    ELSE IF dx * dx + dy * dy <= 200000
    THEN <<Isqrt((dx * dx + dy * dy) * 10000), 100>>
    ELSE <<Isqrt((dx * dx + dy * dy) * 100), 10>>

\* <<dx / h, dy / h>> in thousandths, h the length as Hypot gives it
scaleBy(dx, dy, h) ==
    <<RoundDiv(dx * h[2] * 1000, h[1]), RoundDiv(dy * h[2] * 1000, h[1])>>

\* <<dx / len, dy / len>> in thousandths with len = Math.hypot(dx, dy) || 1
Unit(dx, dy) ==
    IF dx = 0 /\ dy = 0 THEN <<0, 0>> ELSE scaleBy(dx, dy, Hypot(dx, dy))

\* <<Math.cos(a), Math.sin(a)>> in thousandths for a = Math.atan2(dy, dx);
\* atan2(0, 0) = 0
Direction(dx, dy) == IF dx = 0 /\ dy = 0 THEN <<1000, 0>> ELSE Unit(dx, dy)

pointInObstacle(px, py, o) ==
    IF o.type = "rect"
    THEN px > o.x /\ px < o.x + o.w /\ py > o.y /\ py < o.y + o.h
    ELSE IF o.type = "hex"
    THEN 2 * Abs(px - o.x) <= o.size /\ 2000 * Abs(py - o.y) <= 866 * o.size
    ELSE FALSE

playersCollide(p1, p2) ==
    (p1.x - p2.x) * (p1.x - p2.x) + (p1.y - p2.y) * (p1.y - p2.y)
        < (p1.size + p2.size) * (p1.size + p2.size)

\* createBullet(owner, x, y, angle, speed, life, dmg); b.id is never read by
\* the server and is left out
createBullet(owner, x, y, dir, speed, life, dmg) ==
    [ownerId |-> owner.id, x |-> x, y |-> y,
     vx |-> RoundDiv(dir[1] * speed, 1000), vy |-> RoundDiv(dir[2] * speed, 1000),
     size |-> IF owner.bulletSize = 0 THEN 5 ELSE owner.bulletSize,
     life |-> life, damage |-> dmg]

---------------------------------------------------------------------------
(* update(): the player pass *)

\* the world while update() runs; sent and events grow in program order
Ev(w, e) == [w EXCEPT !.events = Append(@, e)]

\* the index of world.players[id], 0 when there is no such player
playerIndex(ps, id) ==
    IF \E i \in 1..Len(ps) : ps[i].id = id
    THEN CHOOSE i \in 1..Len(ps) : ps[i].id = id
    ELSE 0

\* rate hp per second over dt ms, in 1/HpScale hp
hpOver(rate, dt) == (rate * dt * HpScale) \div 1000

\* p moved by the unit vector u at its speed for dt, then clamped to the world
movedBy(p, u, dt) ==
    [p EXCEPT !.x = Max(0, Min(WORLD_W, p.x + RoundDiv(u[1] * p.speed * dt, 1000000))),
              !.y = Max(0, Min(WORLD_H, p.y + RoundDiv(u[2] * p.speed * dt, 1000000)))]

\* movement from the four direction flags, then the clamp to the world
movePlayer(p, dt) ==
    movedBy(p,
            Unit((IF p.inputs.right THEN 1 ELSE 0) - (IF p.inputs.left THEN 1 ELSE 0),
                 (IF p.inputs.down THEN 1 ELSE 0) - (IF p.inputs.up THEN 1 ELSE 0)),
            dt)

\* if (p.inputs.aimX && p.inputs.aimY) p.angle = atan2(aimY - p.y, aimX - p.x)
aimPlayer(p) ==
    IF p.inputs.aimX # 0 /\ p.inputs.aimY # 0
    THEN [p EXCEPT !.dir = Direction(p.inputs.aimX - p.x, p.inputs.aimY - p.y)]
    ELSE p

\* the push out of a rectangle: <<distX, distY>> is the vector from the
\* closest point of the rectangle to p, h its length; nothing when it is 0
rectPush(p, distX, distY, h, dt) ==
    [p EXCEPT !.hp = @ - hpOver(25, dt),
              !.x = IF h[1] = 0 THEN @
                    ELSE @ + RoundDiv(distX * (p.size * h[2] - h[1]), h[1]),
              !.y = IF h[1] = 0 THEN @
                    ELSE @ + RoundDiv(distY * (p.size * h[2] - h[1]), h[1])]

rectContact(p, distX, distY, dt) ==
    IF distX * distX + distY * distY < p.size * p.size
    THEN rectPush(p, distX, distY, Hypot(distX, distY), dt)
    ELSE p

\* the push out of a hexagon: 5 units along u
hexPush(p, u, dt) ==
    [p EXCEPT !.hp = @ - hpOver(25, dt),
              !.x = @ + RoundDiv(u[1] * 5, 1000),
              !.y = @ + RoundDiv(u[2] * 5, 1000)]

\* contact of player p with one obstacle o that is not destroyed
obstacleContact(p, o, dt) ==
    IF o.type = "rect"
    THEN rectContact(p, p.x - Max(o.x, Min(p.x, o.x + o.w)),
                        p.y - Max(o.y, Min(p.y, o.y + o.h)), dt)
    ELSE IF pointInObstacle(p.x, p.y, o)
    THEN hexPush(p, Unit(p.x - o.x, p.y - o.y), dt)
    ELSE p

\* for (const o of world.obstacles), from the k-th on
RECURSIVE obstacleContacts(_, _, _, _)
obstacleContacts(p, obs, k, dt) ==
    IF k > Len(obs) THEN p
    ELSE obstacleContacts(IF obs[k].hp <= 0 THEN p ELSE obstacleContact(p, obs[k], dt),
                          obs, k + 1, dt)

\* the push away from another player: 4 units along a
playerPush(p, a, dt) ==
    [p EXCEPT !.x = @ + RoundDiv(a[1] * 4, 1000),
              !.y = @ + RoundDiv(a[2] * 4, 1000),
              !.hp = @ - hpOver(10, dt)]

playerContact(p, p2, dt) ==
    IF playersCollide(p, p2)
    THEN playerPush(p, Direction(p.x - p2.x, p.y - p2.y), dt)
    ELSE p

\* for (const id2 in world.players), from the j-th on; i is p's own index
RECURSIVE playerContacts(_, _, _, _, _)
playerContacts(p, ps, i, j, dt) ==
    IF j > Len(ps) THEN p
    ELSE playerContacts(IF j = i THEN p ELSE playerContact(p, ps[j], dt),
                        ps, i, j + 1, dt)

\* p.hp = Math.min(p.hp + p.regen * dt, p.maxHp); regen is in halves
regenPlayer(p, dt) ==
    [p EXCEPT !.hp = Min(p.hp + (p.regen * dt * HpScale) \div 2000, p.maxHp)]

\* wantFire without the cooldown test
wantFireAlways(p, now) ==
    p.inputs.firing \/ p.inputs.autoFire

wantFire(p, now) ==
    /\ p.inputs.firing \/ p.inputs.autoFire
    /\ (now - p.lastShot) * 1000 > p.fireCooldown

\* the bullets p fires from <<baseX, baseY>>: two muzzles `offset` either
\* side of the axis at tier >= 3 (cos(a + pi/2) = -sin a, sin(a + pi/2) =
\* cos a), one on the axis otherwise
muzzles(p, baseX, baseY, offset) ==
    IF p.tier >= 3
    THEN <<createBullet(p, baseX + RoundDiv((-p.dir[2]) * offset, 1000),
                           baseY + RoundDiv(p.dir[1] * offset, 1000),
                        p.dir, p.bulletSpeed, p.bulletLife, p.damage),
           createBullet(p, baseX + RoundDiv(p.dir[2] * offset, 1000),
                           baseY + RoundDiv((-p.dir[1]) * offset, 1000),
                        p.dir, p.bulletSpeed, p.bulletLife, p.damage)>>
    ELSE <<createBullet(p, baseX, baseY, p.dir, p.bulletSpeed, p.bulletLife,
                        p.damage)>>

firedBullets(p) ==
    muzzles(p, p.x + RoundDiv(p.dir[1] * (p.size + 12), 1000),
               p.y + RoundDiv(p.dir[2] * (p.size + 12), 1000),
            IF p.tier >= 3 THEN 8 ELSE 0)

\* p fires: lastShot = now and the bullets are pushed
fired(w, i, p, shots, now) ==
    Ev([w EXCEPT !.players[i] = [p EXCEPT !.lastShot = now],
                 !.bullets = @ \o shots],
       [e |-> "fire", id |-> p.id, at |-> now, since |-> now - p.lastShot,
        cooldown |-> p.fireCooldown, tier |-> p.tier, damage |-> p.damage,
        by |-> p, shots |-> shots])

\* the indices of the players the loop over id2 finds p colliding with, from
\* the j-th on; p is pushed as the loop goes
RECURSIVE contactsOf(_, _, _, _, _)
contactsOf(p, ps, i, j, dt) ==
    IF j > Len(ps) THEN {}
    ELSE (IF j # i /\ playersCollide(p, ps[j]) THEN {j} ELSE {})
         \cup contactsOf(IF j = i THEN p ELSE playerContact(p, ps[j], dt),
                         ps, i, j + 1, dt)

\* steps 1 to 3 of the player pass for the i-th player: move, aim, obstacles
steeredPlayer(w, i, dt) ==
    obstacleContacts(aimPlayer(movePlayer(w.players[i], dt)), w.obstacles, 1, dt)

\* the contacts of the i-th player with other players are noted
noteContacts(w, i, with) ==
    IF with = {} THEN w ELSE Ev(w, [e |-> "contact", i |-> i, with |-> with])

\* steps 1 to 5 of the player pass for the i-th player
movedPlayer(w, i, dt) ==
    regenPlayer(playerContacts(steeredPlayer(w, i, dt), w.players, i, 1, dt), dt)

\* step 6: fire when wanted and the cooldown has elapsed
firePlayer(w, i, p, now) ==
    IF wantFire(p, now) THEN fired(w, i, p, firedBullets(p), now)
    ELSE [w EXCEPT !.players[i] = p]

\* the i-th player is soft-reset to post
resetInto(w, i, post, cause) ==
    Ev([w EXCEPT !.players[i] = post],
       [e |-> "reset", cause |-> cause, pre |-> w.players[i], post |-> post])

\* step 7: if (p.hp <= 0) resetPlayer(p), one world per position
\* Math.random() can give
settlePlayer(w, i, spawns) ==
    IF w.players[i].hp <= 0
    THEN { resetInto(w, i, resetPlayer(w.players[i], pos), "contact") : pos \in spawns }
    ELSE { w }

\* one iteration of `for (const id in world.players)`
playerStep(w, i, now, dt, spawns) ==
    settlePlayer(
        firePlayer(noteContacts(w, i, contactsOf(steeredPlayer(w, i, dt),
                                                 w.players, i, 1, dt)),
                   i, movedPlayer(w, i, dt), now),
        i, spawns)

RECURSIVE playerPass(_, _, _, _, _)
playerPass(W, i, now, dt, spawns) ==
    IF \A w \in W : i > Len(w.players) THEN W
    ELSE playerPass(UNION { playerStep(w, i, now, dt, spawns) : w \in W },
                    i + 1, now, dt, spawns)

---------------------------------------------------------------------------
(* update(): the projectile pass *)

removeAt(s, i) == SubSeq(s, 1, i - 1) \o SubSeq(s, i + 1, Len(s))

\* respawnTimers.set(id, time)
setTimer(timers, id, time) ==
    IF \E k \in 1..Len(timers) : timers[k].id = id
    THEN [k \in 1..Len(timers) |->
            IF timers[k].id = id THEN [id |-> id, time |-> time] ELSE timers[k]]
    ELSE Append(timers, [id |-> id, time |-> time])

\* the least member of a set of indices, 0 when it is empty
firstOf(S) == IF S = {} THEN 0 ELSE CHOOSE k \in S : \A m \in S : k <= m

\* the first obstacle of the pool that contains the bullet's point, destroyed
\* or not: the search without `if (o.hp <= 0) continue`
hitObstacleAny(b, obs) ==
    firstOf({ k \in 1..Len(obs) : pointInObstacle(b.x, b.y, obs[k]) })

\* the first obstacle of the pool that contains the bullet's point and is
\* not destroyed (a destroyed one is skipped by `continue`); 0 when none
hitObstacle(b, obs) ==
    firstOf({ k \in 1..Len(obs) : pointInObstacle(b.x, b.y, obs[k]) /\ obs[k].hp > 0 })

\* the destroyed obstacles the search passed over before it stopped at k
passedObstacles(b, obs, k) ==
    { m \in 1..Len(obs) : /\ k = 0 \/ m < k
                          /\ pointInObstacle(b.x, b.y, obs[m])
                          /\ obs[m].hp <= 0 }

\* the level-up branch that follows the call of addXPAndCheckLevel in the
\* obstacle reward; q is the owner after the call
inlineLevelUp(q) ==
    [inlineTier([q EXCEPT !.level = @ + 1])
        EXCEPT !.xp = @ - q.xpToLevel,
               !.xpToLevel = RoundDiv(q.xpToLevel * 13, 10)]

\* r = [player, sent] as addXPAndCheckLevel left them: the branch is taken
\* when xp >= xpToLevel still holds
afterInline(r, cs) ==
    IF r.player.xp >= r.player.xpToLevel
    THEN [player |-> inlineLevelUp(r.player),
          sent |-> r.sent \o levelupSends(cs, inlineLevelUp(r.player), 1),
          inline |-> TRUE, mid |-> r.player]
    ELSE [player |-> r.player, sent |-> r.sent, inline |-> FALSE, mid |-> r.player]

obstacleScore(o) == IF o.type = "rect" THEN 10 ELSE IF o.type = "hex" THEN 30 ELSE 0
obstacleXp(o) == IF o.type = "rect" THEN 5 ELSE IF o.type = "hex" THEN 12 ELSE 0

\* the reward for destroying obstacle o: [player, sent, inline, mid]
obstacleReward(owner, o, cs) ==
    afterInline(addXPAndCheckLevel([owner EXCEPT !.score = @ + obstacleScore(o)],
                                   obstacleXp(o), cs),
                cs)

\* o.hp -= b.damage without the clamp that follows it
damagedUnclamped(o, b) == [o EXCEPT !.hp = @ - b.damage]

\* o.hp -= b.damage; if (o.hp <= 0) o.hp = 0
damaged(o, b) == [o EXCEPT !.hp = IF @ - b.damage <= 0 THEN 0 ELSE @ - b.damage]

\* the owner (the oi-th player) takes the reward r
rewarded(w, oi, o, r) ==
    Ev([w EXCEPT !.players[oi] = r.player, !.sent = @ \o r.sent],
       [e |-> "obstacleReward", id |-> w.players[oi].id, gain |-> obstacleXp(o),
        pre |-> [w.players[oi] EXCEPT !.score = @ + obstacleScore(o)],
        mid |-> r.mid, post |-> r.player, inline |-> r.inline, sent |-> r.sent])

\* respawnTimers.set(o.id, Date.now() / 1000)
scheduled(w, o, k, now, owned) ==
    Ev([w EXCEPT !.timers = setTimer(@, o.id, now)],
       [e |-> "schedule", id |-> o.id, k |-> k, due |-> now, at |-> now,
        owner |-> owned])

\* the destruction with the schedule moved inside `if (owner)`
destroyedOwnedOnly(w, o, k, oi, now, cs) ==
    IF o.hp > 0 \/ oi = 0 THEN w
    ELSE scheduled(rewarded(w, oi, o, obstacleReward(w.players[oi], o, cs)),
                   o, k, now, TRUE)

\* obstacle k, now o, has been hit: when its hp is 0 the owner, if in the
\* world, is rewarded and the respawn is scheduled
destroyed(w, o, k, oi, now, cs) ==
    IF o.hp > 0 THEN w
    ELSE scheduled(IF oi # 0 THEN rewarded(w, oi, o, obstacleReward(w.players[oi], o, cs))
                   ELSE w,
                   o, k, now, oi # 0)

\* the i-th bullet b has hit obstacle k
bulletHitsObstacle(w, i, b, k, now, cs) ==
    [destroyed(Ev([w EXCEPT !.obstacles[k] = damaged(w.obstacles[k], b)],
                  [e |-> "hitObstacle", bullet |-> i, k |-> k,
                   at |-> <<b.x, b.y>>, pool |-> w.obstacles, life |-> b.life,
                   id |-> w.obstacles[k].id, before |-> w.obstacles[k].hp,
                   damage |-> b.damage, after |-> damaged(w.obstacles[k], b).hp]),
               damaged(w.obstacles[k], b), k, playerIndex(w.players, b.ownerId),
               now, cs)
        EXCEPT !.bullets = removeAt(@, i)]

\* the first player, not the owner, whose circle the bullet overlaps; 0 when none
hitPlayer(b, ps) ==
    firstOf({ j \in 1..Len(ps) :
                /\ ps[j].id # b.ownerId
                /\ (ps[j].x - b.x) * (ps[j].x - b.x) + (ps[j].y - b.y) * (ps[j].y - b.y)
                     < (ps[j].size + b.size) * (ps[j].size + b.size) })

killScore(p) == Max(5, FloorHalf(p.score))

\* the xp gain of a kill without its floor of 60
killXpByLevel(p) == FloorHalf(p.level * 10)

killXp(p) == Max(60, FloorHalf(p.level * 10))

\* the owner (the oi-th player) takes the reward r for victim j, who is
\* soft-reset to post
killed(w, j, oi, r, post) ==
    Ev([w EXCEPT !.players[oi] = r.player, !.players[j] = post,
                 !.sent = @ \o r.sent],
       [e |-> "kill", scoreGain |-> killScore(w.players[j]),
        xpGain |-> killXp(w.players[j]),
        ownerPre |-> w.players[oi], ownerPost |-> r.player, sent |-> r.sent,
        pre |-> w.players[j], post |-> post])

\* player j has taken the bullet's damage: if (p.hp <= 0 && owner) the owner
\* is rewarded and the victim reset
playerDamaged(w, j, oi, cs, spawns) ==
    IF w.players[j].hp <= 0 /\ oi # 0
    THEN { killed(w, j, oi,
                  addXPAndCheckLevel(
                      [w.players[oi] EXCEPT !.score = @ + killScore(w.players[j])],
                      killXp(w.players[j]), cs),
                  resetPlayer(w.players[j], pos)) : pos \in spawns }
    ELSE { w }

\* the i-th bullet b has hit player j
bulletHitsPlayer(w, i, b, j, cs, spawns) ==
    playerDamaged(
        Ev([w EXCEPT !.players[j].hp = @ - b.damage * HpScale,
                     !.bullets = removeAt(@, i)],
           [e |-> "hitPlayer", bullet |-> i, id |-> w.players[j].id,
            at |-> <<b.x, b.y>>, pool |-> w.obstacles, ownerId |-> b.ownerId,
            life |-> b.life,
            damage |-> b.damage, hp |-> w.players[j].hp - b.damage * HpScale,
            owner |-> playerIndex(w.players, b.ownerId) # 0]),
        j, playerIndex(w.players, b.ownerId), cs, spawns)

\* b.x += b.vx * dt; b.y += b.vy * dt; b.life -= dt
advanced(b, dt) ==
    [b EXCEPT !.x = @ + RoundDiv(b.vx * dt, 1000),
              !.y = @ + RoundDiv(b.vy * dt, 1000),
              !.life = @ - dt]

\* the destroyed obstacles the search passed over are noted
notePassed(w, i, b, over) ==
    IF over = {} THEN w
    ELSE Ev(w, [e |-> "passObstacle", bullet |-> i, over |-> over,
                at |-> <<b.x, b.y>>, pool |-> w.obstacles])

\* the hit tests of the i-th bullet b: obstacle k first, player j when no
\* obstacle was hit
resolveBullet(w, i, b, k, j, now, cs, spawns) ==
    IF k # 0 THEN { bulletHitsObstacle(w, i, b, k, now, cs) }
    ELSE IF j # 0 THEN bulletHitsPlayer(w, i, b, j, cs, spawns)
    ELSE { w }

\* the i-th bullet, advanced to b, is kept and hit-tested
testedBullet(w, i, b, now, cs, spawns) ==
    resolveBullet(
        notePassed([w EXCEPT !.bullets[i] = b], i, b,
                   passedObstacles(b, w.obstacles, hitObstacle(b, w.obstacles))),
        i, b, hitObstacle(b, w.obstacles), hitPlayer(b, w.players),
        now, cs, spawns)

\* the i-th bullet without `if (b.life <= 0) { splice; continue; }`
movedBulletNoExpiry(w, i, b, now, cs, spawns) ==
    testedBullet(w, i, b, now, cs, spawns)

\* the i-th bullet, advanced to b: removed when its life is over, kept and
\* hit-tested otherwise
movedBullet(w, i, b, now, cs, spawns) ==
    IF b.life <= 0
    THEN { Ev([w EXCEPT !.bullets = removeAt(@, i)],
              [e |-> "expire", bullet |-> i, life |-> b.life,
               at |-> <<b.x, b.y>>, ownerId |-> b.ownerId]) }
    ELSE testedBullet(w, i, b, now, cs, spawns)

\* one iteration of the reverse loop over world.bullets
bulletStep(w, i, now, dt, cs, spawns) ==
    movedBullet(w, i, advanced(w.bullets[i], dt), now, cs, spawns)

RECURSIVE bulletPass(_, _, _, _, _, _)
bulletPass(W, i, now, dt, cs, spawns) ==
    IF i < 1 THEN W
    ELSE bulletPass(UNION { bulletStep(w, i, now, dt, cs, spawns) : w \in W },
                    i - 1, now, dt, cs, spawns)

---------------------------------------------------------------------------
(* update(): the respawn sweep *)

\* world.obstacles.findIndex(o => o.id === id), 0 for -1
obstacleIndex(obs, id) == firstOf({ k \in 1..Len(obs) : obs[k].id = id })

\* the entry at index (when found) is replaced and the timer deleted
replaced(w, id, index, newObs, now) ==
    Ev([w EXCEPT !.obstacles = IF index # 0 THEN [@ EXCEPT ![index] = newObs] ELSE @,
                 !.timers = SelectSeq(@, LAMBDA t : t.id # id)],
       [e |-> "respawn", id |-> id, k |-> index, at |-> now,
        size |-> Len(w.obstacles), new |-> newObs])

\* respawnObstacle(id) with `id: id` left out of newObs: the new obstacle
\* keeps the identity it was drawn with
respawnObstacleFreshId(w, id, choice, now) ==
    replaced(w, id, obstacleIndex(w.obstacles, id), choice, now)

\* respawnObstacle(id) with the obstacle Math.random() chose
respawnObstacle(w, id, choice, now) ==
    replaced(w, id, obstacleIndex(w.obstacles, id), [choice EXCEPT !.id = id], now)

\* for (const [id, time] of respawnTimers.entries()), from the k-th entry on
RECURSIVE respawnSweep(_, _, _, _, _)
respawnSweep(W, entries, k, now, choices) ==
    IF k > Len(entries) THEN W
    ELSE respawnSweep(IF now >= entries[k].time
                      THEN { respawnObstacle(w, entries[k].id, c, now) :
                               w \in W, c \in choices }
                      ELSE W,
                      entries, k + 1, now, choices)

\* the bullet pass on every world the player pass can leave, then the sweep
sweepAll(W, now, choices) ==
    UNION { respawnSweep({v}, v.timers, 1, now, choices) : v \in W }

shootAll(W, now, dt, cs, spawns) ==
    UNION { bulletPass({v}, Len(v.bullets), now, dt, cs, spawns) : v \in W }

\* update() at Date.now() = now with dt = min(0.1, now - last): every world it
\* can leave.  The later reads of Date.now() in the same call (the schedule
\* time and the sweep's nowSec) are taken equal to now: the clock does not go
\* back, and only `nowSec >= time` depends on them.
update(w, now, dt, cs, spawns, choices) ==
    sweepAll(shootAll(playerPass({w}, 1, now, dt, spawns), now, dt, cs, spawns),
             now, choices)

---------------------------------------------------------------------------
(* Bounds and the inputs drawn *)

NumConns == 2       \* connections that can be open at once
PoolSize == 3       \* obstacles in the pool (spawnObstacles(count))
MaxTicks == 2       \* update() calls
MaxSteps == 4       \* connection events handled (connect, message, close)

\* what Math.random() can give an obstacle: a hexagon in the open and a
\* rectangle at the left edge of the world
ObstacleList ==
    << [id |-> 0, type |-> "hex", x |-> 1117, y |-> 500, w |-> 0, h |-> 0,
        size |-> 60, maxHp |-> 125, hp |-> 125],
       [id |-> 0, type |-> "rect", x |-> 5, y |-> 1470, w |-> 60, h |-> 60,
        size |-> 0, maxHp |-> 120, hp |-> 120] >>

ObstacleChoices == { ObstacleList[k] : k \in 1..Len(ObstacleList) }

\* what Math.random() can give a joining or reset player
SpawnPoints == { <<3, 1500>>, <<1500, 300>> }

\* the time between two calls of update(), ms: the nominal interval and a
\* stall longer than the dt clamp and the fire cooldown
TickAdvances == { 33, 400 }

\* msg.data of an input message
InputChoices ==
    { [left |-> TRUE],
      [up |-> TRUE, right |-> TRUE],
      [autoFire |-> TRUE, aimX |-> 2500, aimY |-> 1500] }

UpgradeChoices ==
    { "hpMax", "regen", "speed", "fireRate", "damage", "bulletSpeed",
      "bulletLife", "other" }

---------------------------------------------------------------------------
(* The server after construction, and after earlier play *)

\* a player as earlier play left it: level-ups took it to `level`
playedPlayer(id, pos, level, score, xp, hp, inputs) ==
    LET p == createPlayer(id, pos)
    IN  inlineTier(applyTier(
          [p EXCEPT !.level = level, !.xpToLevel = calcXpToLevel(level),
                    !.score = score, !.xp = xp, !.hp = hp * HpScale,
                    !.inputs = inputs]))

FiringEast(y) == [NoInputs EXCEPT !.firing = TRUE, !.aimX = 2500, !.aimY = y]

\* the k-th obstacle spawnObstacles() draws: the k-th of ObstacleList
\* (cyclically), each lap 10 further east, so that obstacles overlap as
\* independent random positions allow
spawnedObstacle(k) ==
    [ObstacleList[((k - 1) % Len(ObstacleList)) + 1]
        EXCEPT !.id = k, !.x = @ + 10 * ((k - 1) \div Len(ObstacleList))]

\* spawnObstacles(): PoolSize obstacles at full health with distinct ids
InitObstacles ==
    /\ obstacles = [k \in 1..PoolSize |-> spawnedObstacle(k)]
    /\ respawnTimers = <<>>

\* the pool after earlier play: the first obstacle at full health or as one
\* hit of 45 left it; nothing is scheduled (the sweep of a tick leaves no
\* entry behind)
InitWornObstacles ==
    /\ \E worn \in {0, 45} :
         obstacles = [k \in 1..PoolSize |->
                        [spawnedObstacle(k)
                            EXCEPT !.hp = IF k = 1 THEN @ - worn ELSE @]]
    /\ respawnTimers = <<>>

InitCommon ==
    /\ clock = 1000
    /\ last = 1000
    /\ ticks = 0
    /\ sent = <<>>
    /\ events = <<>>

\* the server as constructed: nobody has connected
InitEmpty ==
    /\ InitObstacles
    /\ bullets = <<>>
    /\ conns = [c \in 1..NumConns |-> [open |-> FALSE, id |-> 0]]
    /\ players = <<>>
    /\ nextId = PoolSize + 1
    /\ steps = 0

\* the xp P1 enters the duel with: none, the two values either side of the
\* point where 60 more xp crosses a second threshold, and the most level 6
\* allows (calcXpToLevel(6) = 37)
DuelXp == {0, 24, 25, 36}

\* The two scenarios below start after earlier play, with one connection
\* event left to explore.
\* a bullet a player who has since left fired westward 1770 ms ago: it has
\* 30 ms to live and is 30 units east of (1000, 1000)
StrayBullet(ownerId) ==
    [ownerId |-> ownerId, x |-> 1030, y |-> 1000, vx |-> -850, vy |-> 0,
     size |-> 5, life |-> 30, damage |-> 20]

\* two players in a duel: P1 (level 6, score 100) fires east at P2 (level 2,
\* score 40), who is 100 units away and down to 15 hp; the stray bullet is
\* about to reach P1
InitDuel ==
    /\ InitObstacles
    /\ bullets = << StrayBullet(PoolSize + 3) >>
    /\ conns = [c \in 1..NumConns |->
                  IF c <= 2 THEN [open |-> TRUE, id |-> PoolSize + c]
                  ELSE [open |-> FALSE, id |-> 0]]
    /\ \E xp1 \in DuelXp, xp2 \in {5} :
         players = << playedPlayer(PoolSize + 1, <<1000, 1000>>, 6, 100, xp1, 100,
                                   FiringEast(1000)),
                      playedPlayer(PoolSize + 2, <<1100, 1000>>, 2, 40, xp2, 15,
                                   NoInputs) >>
    /\ nextId = PoolSize + 4
    /\ steps = MaxSteps - 1

\* the level and xp of the second player of InitVeteran: xp odd at level 1,
\* and the most its level allows (xpToLevel - 1) at levels 2, 5 and 10
StragglerProgress == { <<1, 9>>, <<2, 12>>, <<5, 28>>, <<10, 105>> }

\* a level 10 player firing east from (1000, 500) at the hexagon, and a
\* player down to 2 hp touching the rectangle at the left edge
InitVeteran ==
    /\ InitWornObstacles
    /\ bullets = <<>>
    /\ conns = [c \in 1..NumConns |->
                  IF c <= 2 THEN [open |-> TRUE, id |-> PoolSize + c]
                  ELSE [open |-> FALSE, id |-> 0]]
    /\ \E lx \in StragglerProgress :
         players = << playedPlayer(PoolSize + 1, <<1000, 500>>, 10, 300, 100, 100,
                                   FiringEast(500)),
                      playedPlayer(PoolSize + 2, <<3, 1500>>, lx[1], 41, lx[2], 2,
                                   NoInputs) >>
    /\ nextId = PoolSize + 3
    /\ steps = MaxSteps - 1

Init == InitCommon /\ (InitEmpty \/ InitDuel \/ InitVeteran)

---------------------------------------------------------------------------
(* The handlers *)

\* an exception left a handler uncaught: the process has ended, and no
\* handler or timer runs again
Crashed == events # <<>> /\ events[Len(events)].e = "throw"

\* wss.on("connection"): a new socket, ws.id = null.  Sockets differ only
\* in ws.id, so the new one takes the lowest free slot.
Connect(c) ==
    /\ ~Crashed
    /\ ~conns[c].open
    /\ steps < MaxSteps
    /\ steps' = steps + 1
    /\ \A d \in 1..(c - 1) : conns[d].open
    /\ conns' = [conns EXCEPT ![c] = [open |-> TRUE, id |-> 0]]
    /\ sent' = <<>>
    /\ events' = <<>>
    /\ UNCHANGED <<players, bullets, obstacles, respawnTimers, clock, last,
                   nextId, ticks>>

\* message {type: "join"}
Join(c) ==
    /\ ~Crashed
    /\ conns[c].open
    /\ steps < MaxSteps
    /\ \E pos \in SpawnPoints :
         players' = Append(players, createPlayer(nextId, pos))
    /\ conns' = [conns EXCEPT ![c].id = nextId]
    /\ nextId' = nextId + 1
    /\ steps' = steps + 1
    /\ sent' = <<[to |-> c, type |-> "welcome", level |-> 0]>>
    /\ events' = <<>>
    /\ UNCHANGED <<bullets, obstacles, respawnTimers, clock, last, ticks>>

\* {...pl.inputs, ...msg.data}
mergeInputs(old, data) ==
    [f \in DOMAIN old |-> IF f \in DOMAIN data THEN data[f] ELSE old[f]]

\* the effect of message {type: "upgrade", choice: c} on pl
upgrade(pl, c) ==
    IF c = "hpMax" THEN [pl EXCEPT !.maxHp = @ + 20 * HpScale,
                                   !.hp = pl.maxHp + 20 * HpScale]
    ELSE IF c = "regen" THEN [pl EXCEPT !.regen = @ + 1]
    ELSE IF c = "speed" THEN [pl EXCEPT !.speed = @ + 20]
    ELSE IF c = "fireRate" THEN [pl EXCEPT !.fireCooldown = (@ * 9) \div 10]
    ELSE IF c = "damage" THEN [pl EXCEPT !.damage = @ + 5]
    ELSE IF c = "bulletSpeed" THEN [pl EXCEPT !.bulletSpeed = @ + 100]
    ELSE IF c = "bulletLife" THEN [pl EXCEPT !.bulletLife = @ + 200]
    ELSE pl

\* const pl = world.players[ws.id] of a message that is not a join: the
\* index of pl, 0 when the socket has not joined or its player is gone
target(c) == IF conns[c].id = 0 THEN 0 ELSE playerIndex(players, conns[c].id)

\* message {type: "input", data}
Input(c) ==
    /\ ~Crashed
    /\ conns[c].open
    /\ steps < MaxSteps
    /\ \E data \in InputChoices :
         players' = IF target(c) = 0 THEN players
                    ELSE [players EXCEPT ![target(c)].inputs = mergeInputs(@, data)]
    /\ steps' = steps + 1
    /\ sent' = <<>>
    /\ events' = <<>>
    /\ UNCHANGED <<conns, bullets, obstacles, respawnTimers, clock, last,
                   nextId, ticks>>

\* message {type: "upgrade", choice}
Upgrade(c) ==
    /\ ~Crashed
    /\ conns[c].open
    /\ steps < MaxSteps
    /\ \E choice \in UpgradeChoices :
         players' = IF target(c) = 0 THEN players
                    ELSE [players EXCEPT ![target(c)] = upgrade(@, choice)]
    /\ steps' = steps + 1
    /\ sent' = <<>>
    /\ events' = <<>>
    /\ UNCHANGED <<conns, bullets, obstacles, respawnTimers, clock, last,
                   nextId, ticks>>

\* raw messages that are no join, input or upgrade: text that is not JSON,
\* JSON values that are not objects, and objects without a known type
RawMessages == { "{", "5", "[]", "null", "{}", "{\"type\":\"ping\"}" }

\* try { msg = JSON.parse(raw) } catch { return }: what msg is
parsed(raw) ==
    IF raw = "{" THEN "SyntaxError"
    ELSE IF raw = "5" THEN "number"
    ELSE IF raw = "[]" THEN "array"
    ELSE IF raw = "null" THEN "null"
    ELSE "object"

\* msg.type, read outside the try: a property of null cannot be read
\* (TypeError); of a number, an array or an object without it, undefined
typeThrows(msg) == msg = "null"

\* a message of RawMessages: dropped, or the handler throws
Malformed(c) ==
    /\ ~Crashed
    /\ conns[c].open
    /\ steps < MaxSteps
    /\ \E raw \in RawMessages :
         events' = IF parsed(raw) # "SyntaxError" /\ typeThrows(parsed(raw))
                   THEN <<[e |-> "throw", raw |-> raw, conn |-> c]>>
                   ELSE <<>>
    /\ steps' = steps + 1
    /\ sent' = <<>>
    /\ UNCHANGED <<conns, players, bullets, obstacles, respawnTimers, clock,
                   last, nextId, ticks>>

\* ws.on("close"): if (ws.id) delete world.players[ws.id]
Close(c) ==
    /\ ~Crashed
    /\ conns[c].open
    /\ steps < MaxSteps
    /\ steps' = steps + 1
    /\ conns' = [conns EXCEPT ![c] = [open |-> FALSE, id |-> 0]]
    /\ players' = IF conns[c].id # 0
                  THEN SelectSeq(players, LAMBDA p : p.id # conns[c].id)
                  ELSE players
    /\ sent' = <<>>
    /\ events' = <<>>
    /\ UNCHANGED <<bullets, obstacles, respawnTimers, clock, last, nextId,
                   ticks>>

\* setInterval(update, 1000 / TICK_RATE)
Tick ==
    /\ ~Crashed
    /\ ticks < MaxTicks
    /\ \E adv \in TickAdvances :
         LET now == clock + adv
             dt == Min(100, now - last)
             w0 == [players |-> players, bullets |-> bullets,
                    obstacles |-> obstacles, timers |-> respawnTimers,
                    sent |-> <<>>, events |-> <<>>]
         IN  /\ \E w \in update(w0, now, dt, conns, SpawnPoints, ObstacleChoices) :
                   /\ players' = w.players
                   /\ bullets' = w.bullets
                   /\ obstacles' = w.obstacles
                   /\ respawnTimers' = w.timers
                   /\ sent' = w.sent
                   /\ events' = w.events
             /\ clock' = now
             /\ last' = now
    /\ ticks' = ticks + 1
    /\ UNCHANGED <<conns, nextId, steps>>

\* Object.values(world.players).sort((a, b) => b.score - a.score), built by
\* insertion: p goes after every entry whose score is not below its own (the
\* sort is stable)
RECURSIVE insertByScore(_, _)
insertByScore(s, p) ==
    IF s = <<>> THEN <<p>>
    ELSE IF s[1].score >= p.score THEN <<s[1]>> \o insertByScore(Tail(s), p)
    ELSE <<p>> \o s

\* the first k players sorted
RECURSIVE sortedByScore(_, _)
sortedByScore(ps, k) ==
    IF k = 0 THEN <<>> ELSE insertByScore(sortedByScore(ps, k - 1), ps[k])

\* .slice(0, 5)
LeaderboardSize == 5

\* p => ({name: p.name, score: p.score, level: p.level}); the players are
\* taken to have chosen distinct names, and p.id stands for p.name
boardEntry(p) == [name |-> p.id, score |-> p.score, level |-> p.level]

\* the leaderboard without the sort: the first five players as they come
leaderboardUnsorted(ps) ==
    [k \in 1..Min(LeaderboardSize, Len(ps)) |-> boardEntry(ps[k])]

leaderboard(ps) ==
    [k \in 1..Min(LeaderboardSize, Len(ps)) |->
        boardEntry(sortedByScore(ps, Len(ps))[k])]

\* wss.clients.forEach(c => { if (c.readyState === 1) c.send(payload) }),
\* from connection c on
RECURSIVE stateSends(_, _, _)
stateSends(cs, payload, c) ==
    IF c > Len(cs) THEN <<>>
    ELSE (IF cs[c].open THEN <<[payload EXCEPT !.to = c]>> ELSE <<>>)
         \o stateSends(cs, payload, c + 1)

\* setInterval(() => {...}, 1000 / BROADCAST_RATE): the snapshot
Broadcast ==
    /\ ~Crashed
    /\ sent' = stateSends(conns,
                          [to |-> 0, type |-> "state", level |-> 0,
                           players |-> players, bullets |-> bullets,
                           obstacles |-> obstacles,
                           leaderboard |-> leaderboard(players)], 1)
    /\ events' = <<>>
    /\ UNCHANGED <<conns, players, bullets, obstacles, respawnTimers, clock,
                   last, nextId, ticks, steps>>

Next ==
    \/ \E c \in 1..NumConns : Connect(c)
    \/ \E c \in 1..NumConns : Join(c)
    \/ \E c \in 1..NumConns : Input(c)
    \/ \E c \in 1..NumConns : Upgrade(c)
    \/ \E c \in 1..NumConns : Malformed(c)
    \/ \E c \in 1..NumConns : Close(c)
    \/ Tick
    \/ Broadcast

Spec == Init /\ [][Next]_vars

---------------------------------------------------------------------------
(* The progression engine on its own: addXPAndCheckLevel, the obstacle      *)
(* reward and resetPlayer applied to one player, whose level, score and xp  *)
(* are drawn from every value xp < xpToLevel allows                         *)

MaxLevel == 6       \* the level the player starts at
MaxGain == 24       \* xpGain, every value up to it
MaxCalls == 1       \* calls made

\* xpGain: every small value and the three the server awards
Gains == (0..MaxGain) \cup {5, 12, 60}

InitProg ==
    /\ InitCommon
    /\ InitObstacles
    /\ bullets = <<>>
    /\ conns = [c \in 1..NumConns |->
                  IF c = 1 THEN [open |-> TRUE, id |-> PoolSize + 1]
                  ELSE [open |-> FALSE, id |-> 0]]
    /\ \E level \in 1..MaxLevel :
         \E xp \in 0..(calcXpToLevel(level) - 1) :
            players = << playedPlayer(PoolSize + 1, <<1500, 300>>, level, 41,
                                      xp, 100, NoInputs) >>
    /\ nextId = PoolSize + 2
    /\ steps = 0

\* addXPAndCheckLevel(player, xpGain)
Award ==
    /\ steps < MaxCalls
    /\ \E gain \in Gains :
         LET r == addXPAndCheckLevel(players[1], gain, conns)
         IN  /\ players' = <<r.player>>
             /\ sent' = r.sent
             /\ events' = <<[e |-> "award", gain |-> gain, pre |-> players[1],
                             post |-> r.player, sent |-> r.sent]>>
    /\ steps' = steps + 1
    /\ UNCHANGED <<conns, bullets, obstacles, respawnTimers, clock, last,
                   nextId, ticks>>

\* the reward for destroying an obstacle: the call and the branch after it
ObstacleKill ==
    /\ steps < MaxCalls
    /\ \E o \in ObstacleChoices :
         LET r == obstacleReward(players[1], o, conns)
         IN  /\ players' = <<r.player>>
             /\ sent' = r.sent
             /\ events' = <<[e |-> "obstacleReward", id |-> players[1].id,
                             gain |-> obstacleXp(o),
                             pre |-> [players[1] EXCEPT !.score = @ + obstacleScore(o)],
                             mid |-> r.mid, post |-> r.player,
                             inline |-> r.inline, sent |-> r.sent]>>
    /\ steps' = steps + 1
    /\ UNCHANGED <<conns, bullets, obstacles, respawnTimers, clock, last,
                   nextId, ticks>>

\* resetPlayer(p)
SoftReset ==
    /\ steps < MaxCalls
    /\ \E pos \in SpawnPoints :
         /\ players' = <<resetPlayer(players[1], pos)>>
         /\ events' = <<[e |-> "reset", cause |-> "call", pre |-> players[1],
                         post |-> resetPlayer(players[1], pos)]>>
    /\ sent' = <<>>
    /\ steps' = steps + 1
    /\ UNCHANGED <<conns, bullets, obstacles, respawnTimers, clock, last,
                   nextId, ticks>>

NextProg == Award \/ ObstacleKill \/ SoftReset

SpecProg == InitProg /\ [][NextProg]_vars

---------------------------------------------------------------------------
(* The snapshot on its own: up to MaxPlayers players with scores that tie   *)
(* and differ, the last two owned by open sockets and the others left by    *)
(* earlier joins of the first socket; sockets close and snapshots are sent  *)

MaxPlayers == 7     \* players in the world

BoardScores == {0, 20, 40}

InitBoard ==
    /\ InitCommon
    /\ InitObstacles
    /\ bullets = <<>>
    /\ \E n \in 0..MaxPlayers :
         /\ \E sc \in [1..n -> BoardScores] :
              players = [k \in 1..n |->
                           playedPlayer(PoolSize + k, <<1500, 300>>, 1, sc[k], 0,
                                        100, NoInputs)]
         /\ conns = [c \in 1..NumConns |->
                       IF c <= 2 /\ c <= n
                       THEN [open |-> TRUE, id |-> PoolSize + n + 1 - c]
                       ELSE [open |-> FALSE, id |-> 0]]
         /\ nextId = PoolSize + n + 1
    /\ steps = 0

NextBoard ==
    \/ \E c \in 1..NumConns : Close(c)
    \/ Broadcast

SpecBoard == InitBoard /\ [][NextBoard]_vars

---------------------------------------------------------------------------
(* Properties.  `events` holds what the step that led to the state did, so  *)
(* a predicate over it speaks about the inside of that step.               *)

\* the events of the last step of kind k
EventsOf(k) == { i \in 1..Len(events) : events[i].e = k }

\* v = Math.floor(w * 0.5), stated without division
IsFloorHalf(v, w) == 2 * v <= w /\ w < 2 * v + 2

\* the tier, damage and projectile size the tier table gives a level
TierTable(level) ==
    IF level >= 10 THEN <<3, 45, 8>>
    ELSE IF level >= 5 THEN <<2, 30, 12>>
    ELSE <<1, 20, 5>>

HasTierOfLevel(p) == <<p.tier, p.damage, p.bulletSize>> = TierTable(p.level)

\* the xp spent on the thresholds of the levels from..(to - 1)
RECURSIVE Thresholds(_, _)
Thresholds(from, to) ==
    IF from >= to THEN 0 ELSE calcXpToLevel(from) + Thresholds(from + 1, to)

\* C1: after any tick every player in the world has 0 <= hp <= maxHp, also
\* when a projectile whose owner has disconnected took the hp to <= 0
C1_HpWithinBounds ==
    \A i \in 1..Len(players) :
        0 <= players[i].hp /\ players[i].hp <= players[i].maxHp

\* C2: after any tick every player's position lies within
\* [0, WORLD_W] x [0, WORLD_H], the push-outs applied after the clamp included
C2_PositionWithinWorld ==
    \A i \in 1..Len(players) :
        /\ 0 <= players[i].x /\ players[i].x <= WORLD_W
        /\ 0 <= players[i].y /\ players[i].y <= WORLD_H

\* C3: there is exactly one player per joined open connection: every player
\* is owned by an open connection, and each joined open connection owns one
\* player of the world
C3_OnePlayerPerConnection ==
    /\ \A i \in 1..Len(players) :
          \E c \in 1..NumConns : conns[c].open /\ conns[c].id = players[i].id
    /\ Len(players) = Cardinality({ c \in 1..NumConns :
                                      conns[c].open /\ conns[c].id # 0 })

\* C4: an obstacle a projectile destroys is scheduled for a time later than
\* now, is still in the pool with hp = 0 when the tick ends, and is not
\* respawned by the sweep of that tick
C4_RespawnAfterDelay ==
    \A i \in EventsOf("schedule") :
        /\ events[i].due > events[i].at
        /\ obstacles[events[i].k].hp = 0
        /\ \A j \in EventsOf("respawn") : events[j].id # events[i].id

\* C5: after addXPAndCheckLevel (kill reward, obstacle reward) or resetPlayer
\* completes, the player's tier, damage and projectile size are those the
\* tier table gives its level
C5_TierOfLevel ==
    /\ \A i \in EventsOf("kill") :
          HasTierOfLevel(events[i].ownerPost) /\ HasTierOfLevel(events[i].post)
    /\ \A i \in EventsOf("obstacleReward") : HasTierOfLevel(events[i].mid)
    /\ \A i \in EventsOf("reset") : HasTierOfLevel(events[i].post)

\* what addXPAndCheckLevel(pre, gain) must leave: 0 <= xp < xpToLevel,
\* xpToLevel that of the level, and the level raised by exactly the
\* thresholds the gain paid for
Resolved(pre, gain, post) ==
    /\ 0 <= post.xp /\ post.xp < post.xpToLevel
    /\ post.xpToLevel = calcXpToLevel(post.level)
    /\ post.level >= pre.level
    /\ pre.xp + gain = post.xp + Thresholds(pre.level, post.level)

\* C6: addXPAndCheckLevel ends with 0 <= xp < xpToLevel = calcXpToLevel(level)
\* after one level-up per threshold crossed, so the level-up branch after the
\* obstacle reward never fires
C6_LevelResolution ==
    /\ \A i \in EventsOf("award") :
          Resolved(events[i].pre, events[i].gain, events[i].post)
    /\ \A i \in EventsOf("obstacleReward") :
          /\ Resolved(events[i].pre, events[i].gain, events[i].mid)
          /\ ~events[i].inline
          /\ events[i].post = events[i].mid

\* one call crossed several thresholds
C6_Witness ==
    \E i \in EventsOf("award") :
        events[i].post.level >= events[i].pre.level + 2

\* what resetPlayer must leave of pre
SoftResetOf(pre, post) ==
    /\ IsFloorHalf(post.score, pre.score)
    /\ IsFloorHalf(post.xp, pre.xp)
    /\ post.level = (IF pre.level > 1 THEN pre.level - 1 ELSE 1)
    /\ post.hp = 100 * HpScale /\ post.maxHp = 100 * HpScale
    /\ post.id = pre.id
    /\ \E j \in 1..Len(players) : players[j].id = pre.id

\* C7: a soft-reset player (contact damage or projectile kill) keeps
\* floor(score / 2) and floor(xp / 2), drops to level max(1, level - 1), has
\* hp = maxHp = 100 and stays in the world under the same id
C7_SoftReset ==
    /\ \A i \in EventsOf("reset") : SoftResetOf(events[i].pre, events[i].post)
    /\ \A i \in EventsOf("kill") : SoftResetOf(events[i].pre, events[i].post)

\* a level 1 player with odd score and xp died of contact damage
C7_Witness ==
    \E i \in EventsOf("reset") :
        /\ events[i].cause = "contact"
        /\ events[i].pre.level = 1
        /\ events[i].pre.score % 2 = 1 /\ events[i].pre.xp % 2 = 1

\* the kill of the scenario: P1 (score 100, level 6) kills P2 (score 40,
\* level 2)
ScenarioKill(e) ==
    /\ e.ownerPre.score = 100 /\ e.ownerPre.level = 6
    /\ e.pre.score = 40 /\ e.pre.level = 2

\* what the scenario promises of a kill
ScenarioOutcome(e) ==
    /\ e.ownerPost.score = 120
    /\ e.xpGain = 60
    /\ e.ownerPost.level = 7 /\ e.ownerPost.tier = 2
    /\ e.ownerPost.xp = e.ownerPre.xp + 60 - calcXpToLevel(6)
    /\ e.post.score = 20 /\ e.post.level = 1
    /\ IsFloorHalf(e.post.xp, e.pre.xp)

\* C8 as stated: for any xp of P1 the kill gives P1 score 120, 60 xp and
\* exactly one level-up to level 7 tier 2, and resets P2 to score 20, level 1,
\* xp halved
C8_KillReward_Original ==
    \A i \in EventsOf("kill") : ScenarioKill(events[i]) => ScenarioOutcome(events[i])

\* C8 amended: the same when P1's xp is at most 24, where 60 more xp stays
\* below the threshold of level 7
C8_KillReward ==
    \A i \in EventsOf("kill") :
        ScenarioKill(events[i]) /\ events[i].ownerPre.xp <= 24
            => ScenarioOutcome(events[i])

C8_Witness ==
    \E i \in EventsOf("kill") :
        /\ ScenarioKill(events[i])
        /\ events[i].ownerPre.xp = 24
        /\ events[i].ownerPost.level = 7

\* C9: the pool keeps its size and its identities; a respawn replaces the
\* entry at the index of the id with an obstacle of that id at full health
\* and deletes the id from the schedule
C9_PoolFixed ==
    /\ Len(obstacles) = PoolSize
    /\ \A k \in 1..Len(obstacles) : obstacles[k].id = k
    /\ \A i \in EventsOf("respawn") :
          /\ events[i].k = events[i].id
          /\ events[i].size = PoolSize
          /\ events[i].new.id = events[i].id
          /\ events[i].new.hp = events[i].new.maxHp /\ events[i].new.hp > 0
          /\ \A t \in 1..Len(respawnTimers) : respawnTimers[t].id # events[i].id

C9_Witness ==
    \E i \in EventsOf("respawn") : obstacles[events[i].k] = events[i].new

\* C10: every obstacle has 0 <= hp <= maxHp; a hit is taken only by an
\* obstacle with hp > 0 and leaves max(0, hp - damage)
C10_ObstacleHp ==
    /\ \A k \in 1..Len(obstacles) :
          0 <= obstacles[k].hp /\ obstacles[k].hp <= obstacles[k].maxHp
    /\ \A i \in EventsOf("hitObstacle") :
          /\ events[i].before > 0
          /\ events[i].after >= 0
          /\ events[i].after >= events[i].before - events[i].damage
          /\ events[i].after > 0 => events[i].after = events[i].before - events[i].damage

\* a hit for more than the hp left, and a projectile that flew over the
\* destroyed obstacle in the same tick
C10_Witness ==
    /\ \E i \in EventsOf("hitObstacle") :
          events[i].before < events[i].damage /\ events[i].after = 0
    /\ EventsOf("passObstacle") # {}

\* C11: an obstacle whose hp reaches 0 is scheduled in the same step, with or
\* without the projectile's owner in the world, and is replaced by a
\* full-health obstacle with its entry cleared.  The sweep that ends every
\* update() does the replacing, so the property is stated of every state:
\* each destruction is followed in its step by the schedule and the respawn
\* of that obstacle, no obstacle is at hp = 0 and no entry is left.
C11_DestroyedIsRespawned ==
    /\ \A i \in EventsOf("hitObstacle") :
          events[i].after = 0 =>
             \E j \in EventsOf("schedule"), r \in EventsOf("respawn") :
                /\ i < j /\ j < r
                /\ events[j].id = events[i].id /\ events[r].id = events[i].id
                /\ events[r].new.hp = events[r].new.maxHp
    /\ \A k \in 1..Len(obstacles) : obstacles[k].hp > 0
    /\ respawnTimers = <<>>

\* an obstacle was destroyed by the projectile of a player who had left
C11_Witness ==
    \E j \in EventsOf("schedule"), r \in EventsOf("respawn") :
        ~events[j].owner /\ events[r].id = events[j].id

\* the snapshots the last step sent
Snapshots == { i \in 1..Len(sent) : sent[i].type = "state" }

\* board is at most five entries long, sorted by score downwards, made of
\* players of the world (each once, with its score and level), and no
\* player left out has a higher score than one on it
BoardOf(board) ==
    /\ Len(board) <= 5
    /\ Len(board) = (IF Len(players) < 5 THEN Len(players) ELSE 5)
    /\ \A k \in 1..(Len(board) - 1) : board[k].score >= board[k + 1].score
    /\ \A k \in 1..Len(board) :
          /\ \E j \in 1..Len(players) :
                /\ players[j].id = board[k].name
                /\ players[j].score = board[k].score
                /\ players[j].level = board[k].level
          /\ \A m \in 1..Len(board) : board[m].name = board[k].name => m = k
    /\ \A j \in 1..Len(players) :
          (\A k \in 1..Len(board) : board[k].name # players[j].id)
             => \A k \in 1..Len(board) : board[k].score >= players[j].score

\* C12: every snapshot's leaderboard has at most 5 entries, sorted by score
\* in non-increasing order, holds the min(5, players) highest-scoring players,
\* and every entry is a player in the world at the broadcast (none removed
\* by a close)
C12_Leaderboard == \A i \in Snapshots : BoardOf(sent[i].leaderboard)

\* a snapshot sent after a socket closed and its player was removed, with
\* more players left than the leaderboard holds and the top scorer not first
\* in the world
C12_Witness ==
    /\ Snapshots # {}
    /\ steps > 0
    /\ Len(players) > 5
    /\ \E j \in 2..Len(players) : players[j].score > players[1].score

\* msgs is one levelup message for each level from pre.level + 1 to
\* post.level, in order, each to an open connection whose id is the player's
NotifiedOf(pre, post, msgs) ==
    /\ Len(msgs) = post.level - pre.level
    /\ \A k \in 1..Len(msgs) :
          /\ msgs[k].type = "levelup"
          /\ msgs[k].level = pre.level + k
          /\ conns[msgs[k].to].open
          /\ conns[msgs[k].to].id = post.id

\* C13: each level a player gains, by an obstacle reward or a kill reward,
\* sends exactly one levelup message carrying the new level, to the open
\* connection whose id is the player's and to no other
C13_LevelupOncePerLevel ==
    /\ \A i \in EventsOf("kill") :
          NotifiedOf(events[i].ownerPre, events[i].ownerPost, events[i].sent)
    /\ \A i \in EventsOf("obstacleReward") :
          NotifiedOf(events[i].pre, events[i].post, events[i].sent)
    /\ \A i \in EventsOf("award") :
          NotifiedOf(events[i].pre, events[i].post, events[i].sent)

\* C14: a message that cannot be parsed, or that parses to something other
\* than an object with a known type, is dropped: the handler raises no
\* exception, the world is unchanged, the connection stays open and nothing
\* is sent
C14_MalformedDropped ==
    [][(\E c \in 1..NumConns : Malformed(c)) =>
          /\ EventsOf("throw")' = {}
          /\ sent' = <<>>
          /\ UNCHANGED <<conns, players, bullets, obstacles, respawnTimers>>]_vars

\* C15: in every reachable state every player has level >= 1 and the tier
\* of its level: 3 from level 10, 2 from level 5 to 9, 1 below
C15_TierMatchesLevel ==
    \A i \in 1..Len(players) :
        /\ players[i].level >= 1
        /\ players[i].tier = (IF players[i].level >= 10 THEN 3
                              ELSE IF players[i].level >= 5 THEN 2 ELSE 1)

\* a soft reset took a player across a tier boundary, and it is in the world
\* as the reset left it
C15_Witness ==
    \E i \in EventsOf("reset") :
        /\ events[i].post.tier < events[i].pre.tier
        /\ \E j \in 1..Len(players) : players[j] = events[i].post

\* C16: when a player, processed before another, finds its circle
\* overlapping the other's, the other finds the same in that tick: both take
\* the contact damage and both are pushed
C16_ContactSymmetric ==
    \A a \in EventsOf("contact") :
        \A j \in events[a].with :
            j > events[a].i =>
                \E b \in EventsOf("contact") :
                    events[b].i = j /\ events[a].i \in events[b].with

\* C17: a player whose hp a projectile takes to zero or below is soft-reset
\* in that projectile pass, whether or not the projectile's owner is still
\* in the world
C17_DeathResolved ==
    \A i \in EventsOf("hitPlayer") :
        events[i].hp <= 0 =>
            \E j \in EventsOf("reset") \cup EventsOf("kill") :
                j > i /\ events[j].pre.id = events[i].id

\* the events of a hit of the bullet at index b of the pass
HitsOf(b) ==
    { i \in EventsOf("hitObstacle") \cup EventsOf("hitPlayer") : events[i].bullet = b }

\* the obstacles of the pool of event i that contain its point and are not
\* destroyed
AliveAt(i) ==
    { m \in 1..Len(events[i].pool) :
        /\ pointInObstacle(events[i].at[1], events[i].at[2], events[i].pool[m])
        /\ events[i].pool[m].hp > 0 }

\* the bullets of the world as the pass found them: those of the last state
\* and the shots of the player pass, in the order they were pushed
RECURSIVE ShotsOf(_, _)
ShotsOf(evs, n) ==
    IF n = 0 THEN <<>>
    ELSE ShotsOf(evs, n - 1) \o (IF evs[n].e = "fire" THEN evs[n].shots ELSE <<>>)

\* the lifetimes and owners of the bullets of bs from index n on that no
\* event of evs removed, aged by dt
RECURSIVE Survivors(_, _, _, _)
Survivors(bs, n, evs, dt) ==
    IF n > Len(bs) THEN <<>>
    ELSE (IF \E i \in 1..Len(evs) :
                /\ evs[i].e \in {"hitObstacle", "hitPlayer", "expire"}
                /\ evs[i].bullet = n
          THEN <<>>
          ELSE << <<bs[n].ownerId, bs[n].life - dt>> >>)
         \o Survivors(bs, n + 1, evs, dt)

\* a call of update() leaves exactly the bullets no hit and no expiry
\* removed, each aged once
BulletsAccounted ==
    ticks' = ticks + 1 =>
        [k \in 1..Len(bullets') |-> <<bullets'[k].ownerId, bullets'[k].life>>]
          = Survivors(bullets \o ShotsOf(events', Len(events')), 1, events',
                      Min(100, clock' - last))

\* C18: in one tick a projectile damages at most one entity and is then
\* removed: the first non-destroyed obstacle containing its point, else a
\* player other than its owner; a destroyed obstacle containing the point
\* neither takes the hit nor ends the search
C18_OneHit ==
    /\ [](\A i \in EventsOf("hitObstacle") \cup EventsOf("hitPlayer") :
            HitsOf(events[i].bullet) = {i})
    /\ [](\A i \in EventsOf("hitObstacle") :
            /\ events[i].k \in AliveAt(i)
            /\ \A m \in AliveAt(i) : events[i].k <= m)
    /\ [](\A i \in EventsOf("hitPlayer") :
            /\ events[i].id # events[i].ownerId
            /\ AliveAt(i) = {})
    /\ [](\A i \in EventsOf("passObstacle") :
            /\ \A m \in events[i].over :
                  \A j \in HitsOf(events[i].bullet) :
                      events[j].e = "hitObstacle" => events[j].k # m
            /\ AliveAt(i) # {} =>
                  \E j \in HitsOf(events[i].bullet) :
                      events[j].e = "hitObstacle" /\ events[j].k \in AliveAt(i))
    /\ [][BulletsAccounted]_vars

\* a projectile passes over a destroyed obstacle and hits the next obstacle
\* that contains its point, and is gone after the tick
C18_Witness ==
    \E i \in EventsOf("passObstacle") :
        \E j \in HitsOf(events[i].bullet) :
            /\ events[j].e = "hitObstacle"
            /\ \E m \in events[i].over : m < events[j].k

\* the events of the bullet at index b of the pass other than its expiry
TestsOf(b) ==
    { i \in 1..Len(events) :
        /\ events[i].e \in {"hitObstacle", "hitPlayer", "passObstacle"}
        /\ events[i].bullet = b }

\* C19: a projectile whose lifetime is over after ageing is removed in that
\* tick without any hit test, so it changes nothing else; every other
\* projectile of the pass is aged and tested exactly once
C19_Expiry ==
    /\ [](\A k \in 1..Len(bullets) : bullets[k].life > 0)
    /\ [](\A i \in EventsOf("expire") :
            /\ events[i].life <= 0
            /\ TestsOf(events[i].bullet) = {}
            /\ \A j \in EventsOf("expire") : events[j].bullet = events[i].bullet => j = i)
    /\ [](\A i \in EventsOf("hitObstacle") \cup EventsOf("hitPlayer") :
            events[i].life > 0)
    /\ [][BulletsAccounted]_vars

\* a projectile expires inside the circle of a player who is not its owner,
\* and a projectile pushed after it outlives the pass
C19_Witness ==
    \E i \in EventsOf("expire") :
        /\ \E j \in 1..Len(players) :
              /\ players[j].id # events[i].ownerId
              /\ (players[j].x - events[i].at[1]) * (players[j].x - events[i].at[1])
                   + (players[j].y - events[i].at[2]) * (players[j].y - events[i].at[2])
                     < (players[j].size + 5) * (players[j].size + 5)
              /\ players[j].hp = players[j].maxHp
        /\ Len(bullets) > 0

\* the shot b carries what its owner p had when it fired
CarriesStatsOf(b, p) ==
    /\ b.ownerId = p.id
    /\ b.damage = p.damage
    /\ b.life = p.bulletLife
    /\ Abs(Isqrt(b.vx * b.vx + b.vy * b.vy) - p.bulletSpeed) <= 2

\* a player whose lastShot a step changes has fired at the tick time, more
\* than its cooldown after the shot before
ShotsApart ==
    \A i \in 1..Len(players) : \A j \in 1..Len(players') :
        (players'[j].id = players[i].id /\ players'[j].lastShot # players[i].lastShot)
            => /\ players'[j].lastShot = clock'
               /\ (clock' - players[i].lastShot) * 1000 > players[i].fireCooldown

\* C20: a player fires in a tick only with firing or autoFire set and more
\* than fireCooldown after its lastShot; it then spawns one projectile below
\* tier 3 and two from tier 3 on, each with its damage, projectile speed and
\* lifetime of that moment, and its lastShot becomes the tick time
C20_Firing ==
    /\ [](\A i \in EventsOf("fire") :
            /\ events[i].by.inputs.firing \/ events[i].by.inputs.autoFire
            /\ (events[i].at - events[i].by.lastShot) * 1000 > events[i].by.fireCooldown
            /\ Len(events[i].shots) = (IF events[i].by.tier >= 3 THEN 2 ELSE 1)
            /\ \A k \in 1..Len(events[i].shots) :
                  CarriesStatsOf(events[i].shots[k], events[i].by)
            /\ events[i].at = clock
            /\ \A j \in 1..Len(players) :
                  players[j].id = events[i].id => players[j].lastShot = clock)
    /\ [][ShotsApart]_vars

\* a tier 3 player that has fired before fires its two projectiles again
C20_Witness ==
    \E i \in EventsOf("fire") :
        /\ events[i].by.tier >= 3
        /\ events[i].by.lastShot > 0
        /\ Len(events[i].shots) = 2
        /\ \E j \in 1..Len(players) :
              players[j].id = events[i].id /\ players[j].lastShot = clock

=============================================================================
